---- MODULE Spec2Model ----
(***************************************************************************)
(* LinkedIn OAuth backend: the /login/linkedin and /auth/callback          *)
(* endpoints of the three application variants of the repository           *)
(*   "main"     = src/backend/main.py      (persists users in a database)  *)
(*   "app"      = src/backend/app.py       (returns the token as JSON)     *)
(*   "app_main" = src/backend/app/main.py  (basic profile, JSON)           *)
(* One variant is deployed per behaviour.  Synchronous FastAPI handlers    *)
(* run on worker threads, so several callbacks can be in progress at once; *)
(* a handler is cut into steps at its blocking calls (the two provider     *)
(* requests and the database commit).                                      *)
(***************************************************************************)
EXTENDS Naturals, Integers, Sequences, FiniteSets, TLC

VARIABLES deployment, users, cb, issued, usedCodes, post

vars == <<deployment, users, cb, issued, usedCodes, post>>

(* ---------------------------- bounds ----------------------------------- *)
\* logins started in one behaviour
MaxLogins == 1

(* ---------------------------- domains ---------------------------------- *)
\* Python's None for an absent query parameter / JSON key
None == "None"

Deployments == {"main", "app", "app_main", "venv"}

\* worker threads serving requests
Workers == {"w1", "w2"}

\* authorization codes the provider has handed out to browsers
Codes == {"c1", "c2"}
\* the code query parameter as the handler sees it
CodeParams == Codes \cup {None, ""}

\* values secrets.token_urlsafe can return
StateTokens == {"s1", "s2"}
\* the literal of src/backend/app/main.py:58
FixedState == "random_state_string_123"
\* the state query parameter of a callback: absent, a token, or the literal
\* where that is what the deployment hands out
StateParams(d) == {None, "s1"} \cup (IF d = "app_main" THEN {FixedState} ELSE {})

ErrorParams == {None, "access_denied"}

\* the provider issues one access token per authorization code
IssuedToken(code) == IF code = "c1" THEN "t1" ELSE "t2"
ExternalIds == {"u1", "u2"}
Emails == {"a@x", "b@x"}
Names == {"Ann", "Bo Li"}
\* a JSON null, which response.json() gives as the value None of a key that
\* is present
Null == "null"

\* the JSON objects the userinfo endpoint returns: an account's name changes
\* along with its email; the minimal scope leaves out email; an account
\* without a display name has "name": null
Profiles ==
    {p \in [sub : ExternalIds, email : Emails \cup {None},
            name : Names \cup {Null}] :
        \/ p.name = (IF p.email = "b@x" THEN "Bo Li" ELSE "Ann")
        \/ p.name = Null /\ p.email = "a@x"}
NoProfile == [sub |-> None, email |-> None, name |-> None]

\* what the provider can answer to the token request; "no_answer" is the
\* provider that accepts the connection and never sends a response
TokenResults == {"ok", "http_error", "no_token", "conn_error", "no_answer"}
\* what the provider can answer to the profile request
ProfileResults == {"ok", "http_error", "conn_error", "no_answer"}

(* ---------------------------- helpers ---------------------------------- *)
\* a presence test that lets the empty string through
TruthyNotNone(s) == s # None

\* Python truthiness of an Optional[str]
Truthy(s) == s # None /\ s # ""

\* urllib.parse.quote on the names of the model: a space becomes %20
quote(s) == IF s = "Bo Li" THEN "Bo%20Li" ELSE s

\* an HTTP response: status, detail of an HTTPException, and the parts of a
\* success body the claims read
Response(status, detail) ==
    [status |-> status, detail |-> detail, access_token |-> None,
     user_id |-> 0, name |-> None]

NoResponse == Response(0, "")

\* RedirectResponse(url=frontend_url) of main.py
Redirect(row) ==
    [status |-> 307, detail |-> "redirect", access_token |-> None,
     user_id |-> row.id, name |-> quote(row.name)]

\* the JSON success body of app.py and app/main.py
JsonSuccess(tok) ==
    [status |-> 200, detail |-> "success", access_token |-> tok,
     user_id |-> 0, name |-> None]

\* a handler that is not running
IdleCb ==
    [pc |-> "idle", code |-> None, state |-> None, error |-> None,
     tokenResult |-> None, access_token |-> None,
     profileResult |-> None, profile |-> NoProfile, db_user |-> 0,
     tokenReqs |-> 0, profileReqs |-> 0, codeReused |-> FALSE,
     overlap |-> FALSE, response |-> NoResponse]

\* db.query(models.User).filter(models.User.linkedin_id == sub).first():
\* the id of the row, 0 for no row
QueryByLinkedinId(sub) ==
    IF \E u \in users : u.linkedin_id = sub
    THEN (CHOOSE u \in users : u.linkedin_id = sub).id
    ELSE 0

RowById(tbl, id) == CHOOSE u \in tbl : u.id = id

\* a response of create_linkedin_post: status, detail, and the provider's
\* body where the detail quotes it
PostResponse(status, detail, body) ==
    [status |-> status, detail |-> detail, body |-> body]

\* the create_linkedin_post handler when it is not running
IdlePost ==
    [pc |-> "idle", user_id |-> 0, genCalls |-> 0, pubCalls |-> 0,
     genResult |-> None, pubResult |-> None,
     response |-> PostResponse(0, "", None)]

Init ==
    /\ deployment \in Deployments
    /\ users = {}
    /\ cb = [w \in Workers |-> IdleCb]
    /\ issued = <<>>
    /\ usedCodes = {}
    /\ post = IdlePost

(* ---------------------------- login ------------------------------------ *)
\* state = secrets.token_urlsafe(n) in main.py and app.py, a literal in
\* app/main.py; the value only travels in the redirect URL
LoginState(s) ==
    IF deployment = "app_main" THEN FixedState
    ELSE IF deployment = "venv" THEN None
    ELSE s

\* secrets.token_urlsafe draws a value no earlier call returned
login_linkedin ==
    /\ Len(issued) < MaxLogins
    /\ \E s \in StateTokens \ {issued[i] : i \in DOMAIN issued} :
         issued' = Append(issued, LoginState(s))
    /\ UNCHANGED <<deployment, users, cb, usedCodes, post>>

(* ---------------------------- auth_callback ---------------------------- *)
\* the handler ends with this response; its locals go, what stays is the
\* response and what the provider saw of this invocation
Finish(r, resp) ==
    [r EXCEPT !.pc = "done", !.response = resp, !.access_token = None,
              !.profile = NoProfile, !.db_user = 0, !.overlap = FALSE]

\* response.raise_for_status(): raises HTTPError on a 4xx/5xx answer
RaisesForStatus(result) == result = "http_error"

\* token_json.get("access_token")
TokenJsonGet(result, tok) == IF result = "ok" THEN tok ELSE None

\* an except clause that answers 200 with the error in the body
MainErrorSwallowed(exc) == Response(200, exc)

\* main.py: except Exception as e -> HTTPException(500, "An error occurred: ...")
MainError(exc) == Response(500, exc)

\* app.py / app/main.py: the except clauses around the whole try block.  An
\* HTTPException raised inside the try is an Exception and reaches the last one.
AppExcept(exc) ==
    IF exc = "Timeout" /\ deployment = "app_main"
    THEN Response(500, "Request to LinkedIn API timed out")
    ELSE IF exc \in {"ConnectionError", "Timeout"}
         THEN Response(500, "Request failed")
         ELSE Response(500, "Internal server error")

\* main.py:90-92: the handler declares the code parameter only
MainEntry(code, error) ==
    IF ~Truthy(code)
    THEN Response(400, "Authorization code not provided")
    ELSE NoResponse

\* app.py:81-93
AppEntry(code, error) ==
    IF Truthy(error)
    THEN Response(400, "OAuth error")
    ELSE IF ~Truthy(code)
         THEN Response(400, "Authorization code not provided")
         ELSE NoResponse

\* app/main.py:76-91: code is a required str parameter, so FastAPI answers 422
\* itself when it is absent
AppMainEntry(code, error) ==
    IF code = None
    THEN Response(422, "Field required")
    ELSE IF Truthy(error)
         THEN Response(400, "LinkedIn OAuth error")
         ELSE IF ~Truthy(code)
              THEN Response(400, "No authorization code received from LinkedIn")
              ELSE NoResponse

Entry(code, error) ==
    CASE deployment = "main" -> MainEntry(code, error)
      [] deployment = "app" -> AppEntry(code, error)
      [] OTHER -> AppMainEntry(code, error)

\* the request arrives; the checks before the try block run and, when they
\* pass, the token request is sent
Receive(w) ==
    /\ deployment # "venv"
    /\ cb[w].pc \in {"idle", "done"}
    /\ \E code \in CodeParams, state \in StateParams(deployment), error \in ErrorParams :
         LET r == [IdleCb EXCEPT !.code = code, !.state = state, !.error = error]
             e == Entry(code, error)
         IN cb' = [cb EXCEPT ![w] =
                     IF e # NoResponse
                     THEN Finish(r, e)
                     ELSE [r EXCEPT !.pc = "exchanging", !.tokenReqs = @ + 1]]
    /\ UNCHANGED <<deployment, users, issued, usedCodes, post>>

\* main.py:99-104
MainOnToken(r, result, tok) ==
    IF result = "no_answer"
    THEN r
    ELSE IF result = "conn_error"
    THEN Finish(r, MainError("ConnectionError"))
    ELSE IF RaisesForStatus(result)
         THEN Finish(r, MainError("HTTPError"))
         ELSE [r EXCEPT !.access_token = TokenJsonGet(result, tok),
                        !.pc = "fetching", !.profileReqs = @ + 1]

\* app/main.py:111-116, 147-151, 183-187: requests.post and requests.get are
\* given timeout=30 and the Timeout is answered 500.  app.py:109 and 134 (as
\* main.py:99 and 105) give no timeout: the call does not return and the
\* handler stays where it is.
TimesOut(r) ==
    IF deployment = "app_main" THEN Finish(r, AppExcept("Timeout")) ELSE r

\* app.py:109-134, app/main.py:111-151
AppOnToken(r, result, tok) ==
    IF result = "no_answer"
    THEN TimesOut(r)
    ELSE IF result = "conn_error"
    THEN Finish(r, AppExcept("ConnectionError"))
    ELSE IF result = "http_error"
         THEN Finish(r, AppExcept("HTTPException"))
         ELSE IF ~Truthy(TokenJsonGet(result, tok))
              THEN Finish(r, AppExcept("HTTPException"))
              ELSE [r EXCEPT !.access_token = TokenJsonGet(result, tok),
                             !.pc = "fetching", !.profileReqs = @ + 1]

OnToken(r, result, tok) ==
    IF deployment = "main" THEN MainOnToken(r, result, tok)
    ELSE AppOnToken(r, result, tok)

\* the provider answers the token request: it issues a token for a code at
\* most once; the handler runs on to its next request.  The query parameters
\* are not read again after the token request was built.
TokenReply(w) ==
    /\ cb[w].pc = "exchanging"
    /\ cb[w].tokenResult = None
    /\ \E result \in TokenResults, tok \in {IssuedToken(cb[w].code)} :
         /\ result = "ok" => cb[w].code \notin usedCodes
         /\ usedCodes' = IF result = "ok" THEN usedCodes \cup {cb[w].code}
                         ELSE usedCodes
         /\ cb' = [cb EXCEPT ![w] =
                     OnToken([cb[w] EXCEPT !.tokenResult = result,
                                           !.codeReused = (/\ cb[w].code \in usedCodes
                                                          /\ result # "no_answer"),
                                           !.code = None, !.state = None,
                                           !.error = None],
                             result, tok)]
    /\ UNCHANGED <<deployment, users, issued, post>>

\* main.py:105-108: the profile is read and the user row looked up
MainOnProfile(r, result, p) ==
    IF result = "no_answer"
    THEN r
    ELSE IF result = "conn_error"
    THEN Finish(r, MainError("ConnectionError"))
    ELSE IF RaisesForStatus(result)
         THEN Finish(r, MainError("HTTPError"))
         ELSE IF p.sub = None
              THEN Finish(r, MainError("KeyError"))
              ELSE [r EXCEPT !.profile = p, !.pc = "reconciling",
                             !.db_user = QueryByLinkedinId(p.sub)]

\* app.py:136-152
AppOnProfile(r, result, p) ==
    IF result = "no_answer"
    THEN TimesOut(r)
    ELSE IF result = "conn_error"
    THEN Finish(r, AppExcept("ConnectionError"))
    ELSE IF result # "ok"
         THEN Finish(r, AppExcept("HTTPException"))
         ELSE Finish([r EXCEPT !.profile = p], JsonSuccess(r.access_token))

\* app/main.py:153-181: a failed profile request is put in the body
AppMainOnProfile(r, result, p) ==
    IF result = "no_answer"
    THEN TimesOut(r)
    ELSE IF result = "conn_error"
    THEN Finish(r, AppExcept("ConnectionError"))
    ELSE Finish([r EXCEPT !.profile = p], JsonSuccess(r.access_token))

OnProfile(r, result, p) ==
    CASE deployment = "main" -> MainOnProfile(r, result, p)
      [] deployment = "app" -> AppOnProfile(r, result, p)
      [] OTHER -> AppMainOnProfile(r, result, p)

\* the provider answers the profile request; it knows no bearer "None".
\* overlap (history) marks two handlers that have both looked up the same
\* linkedin_id and have not yet committed.
ProfileReply(w) ==
    /\ cb[w].pc = "fetching"
    /\ cb[w].profileResult = None
    /\ \E result \in ProfileResults, p \in Profiles \cup {NoProfile} :
         /\ result = "ok" => Truthy(cb[w].access_token)
         /\ (result = "ok") <=> (p \in Profiles)
         /\ LET r == OnProfile([cb[w] EXCEPT !.profileResult = result], result, p)
                both(v) == /\ v # w
                           /\ r.pc = "reconciling"
                           /\ cb[v].pc = "reconciling"
                           /\ cb[v].profile.sub = r.profile.sub
            IN cb' = [v \in Workers |->
                        IF v = w
                        THEN [r EXCEPT !.overlap = \E u \in Workers : both(u)]
                        ELSE [cb[v] EXCEPT !.overlap = @ \/ both(v)]]
    /\ UNCHANGED <<deployment, users, issued, usedCodes, post>>

\* models.py:8-9: the unique columns of the users table
UniqueOk(tbl, row) ==
    \A u \in tbl : u.linkedin_id # row.linkedin_id /\ u.email # row.email

\* main.py:112-115: the new row; a key missing from profile_data is a KeyError
NewUser(tbl, p, tok) ==
    [id |-> Cardinality(tbl) + 1, linkedin_id |-> p.sub, email |-> p.email,
     name |-> p.name, access_token |-> tok]

\* an update that deletes the row and inserts it again under a new key
UpdateUserRekeyed(u, p, tok) == [u EXCEPT !.access_token = tok, !.id = @ + 2]

\* main.py:109-110: an existing row gets the new token
UpdateUser(u, p, tok) == [u EXCEPT !.access_token = tok]

\* main.py:120-126: the redirect is built from the committed row;
\* urllib.parse.quote raises TypeError on a name that is None, inside the try
AfterCommit(row) ==
    IF row.name = Null THEN MainError("TypeError") ELSE Redirect(row)

\* main.py:109-126: write, commit, refresh and redirect
Commit(w) ==
    /\ deployment = "main"
    /\ cb[w].pc = "reconciling"
    /\ LET r == cb[w]
           p == r.profile
       IN IF r.db_user # 0
          THEN LET old == RowById(users, r.db_user)
                   new == UpdateUser(old, p, r.access_token)
               IN /\ users' = (users \ {old}) \cup {new}
                  /\ cb' = [cb EXCEPT ![w] = Finish(r, AfterCommit(new))]
          ELSE IF p.email = None
               THEN /\ users' = users
                    /\ cb' = [cb EXCEPT ![w] = Finish(r, MainError("KeyError"))]
               ELSE LET row == NewUser(users, p, r.access_token)
                    IN IF UniqueOk(users, row)
                       THEN /\ users' = users \cup {row}
                            /\ cb' = [cb EXCEPT ![w] = Finish(r, AfterCommit(row))]
                       ELSE /\ users' = users
                            /\ cb' = [cb EXCEPT ![w] =
                                        Finish(r, MainError("IntegrityError"))]
    /\ UNCHANGED <<deployment, issued, usedCodes, post>>

Next ==
    \/ login_linkedin
    \/ \E w \in Workers : Receive(w)
    \/ \E w \in Workers : TokenReply(w)
    \/ \E w \in Workers : ProfileReply(w)
    \/ \E w \in Workers : Commit(w)

Spec == Init /\ [][Next]_vars

(* ---------------------------- create_linkedin_post --------------------- *)
\* PostCreate.user_id values a client can send
UserIds == {1, 2, 3}

\* what llm_chain.run can do: return a text or raise
GenerateResults == {"ok", "error"}

\* what the ugcPosts endpoint can do: accept, answer an error status, or
\* give no response at all (connection failure)
PublishResults == {"ok", "http_401", "http_429", "conn_error"}
PublishStatus(result) == IF result = "http_401" THEN 401 ELSE 429
PublishBody(result) ==
    IF result = "http_401" THEN "Invalid access token" ELSE "Throttled"

\* a create_linkedin_post without the test of line 135
PostEntryNoTokenTest(tbl, user_id) ==
    IF ~\E u \in tbl : u.id = user_id
    THEN PostResponse(404, "User not found", None)
    ELSE PostResponse(0, "", None)

\* main.py:132-136: the user row is looked up and its token tested
PostEntry(tbl, user_id) ==
    IF ~\E u \in tbl : u.id = user_id
    THEN PostResponse(404, "User not found", None)
    ELSE IF ~Truthy(RowById(tbl, user_id).access_token)
         THEN PostResponse(400, "User does not have a valid access token", None)
         ELSE PostResponse(0, "", None)

FinishPost(r, resp) == [r EXCEPT !.pc = "done", !.response = resp]

\* main.py:131-154: the request arrives; past the two checks the chain is run
PostReceive ==
    /\ deployment = "main"
    /\ post.pc \in {"idle", "done"}
    /\ \E user_id \in UserIds :
         LET e == PostEntry(users, user_id)
         IN post' = IF e.status # 0
                    THEN FinishPost([IdlePost EXCEPT !.user_id = user_id], e)
                    ELSE [IdlePost EXCEPT !.pc = "generating",
                                          !.user_id = user_id,
                                          !.genCalls = @ + 1]
    /\ UNCHANGED <<deployment, users, cb, issued, usedCodes>>

\* a create_linkedin_post whose except clause of line 155 logs and goes on
PostOnGenerateGoesOn(r, result) ==
    [r EXCEPT !.pc = "publishing", !.pubCalls = @ + 1]

\* main.py:153-181: any exception of the chain is answered 500; a text is
\* posted to the provider
PostOnGenerate(r, result) ==
    IF result # "ok"
    THEN FinishPost(r, PostResponse(500, "AI content generation failed", None))
    ELSE [r EXCEPT !.pc = "publishing", !.pubCalls = @ + 1]

GenerateReply ==
    /\ post.pc = "generating"
    /\ \E result \in GenerateResults :
         post' = PostOnGenerate([post EXCEPT !.genResult = result], result)
    /\ UNCHANGED <<deployment, users, cb, issued, usedCodes>>

\* main.py:180-190: only requests.exceptions.HTTPError is caught; any other
\* exception leaves the handler and the framework answers a bare 500
PostOnPublish(r, result) ==
    IF result = "conn_error"
    THEN FinishPost(r, PostResponse(500, "Internal Server Error", None))
    ELSE IF result # "ok"
         THEN FinishPost(r, PostResponse(PublishStatus(result),
                                         "Failed to post to LinkedIn",
                                         PublishBody(result)))
         ELSE FinishPost(r, PostResponse(200, "success", None))

PublishReply ==
    /\ post.pc = "publishing"
    /\ \E result \in PublishResults :
         post' = PostOnPublish([post EXCEPT !.pubResult = result], result)
    /\ UNCHANGED <<deployment, users, cb, issued, usedCodes>>

\* the users table as an earlier run of the service, or its operator, can
\* have left it: the schema of models.py lets access_token be NULL or empty
StoredTables ==
    LET row1(tok) == [id |-> 1, linkedin_id |-> "u1", email |-> "a@x",
                      name |-> "Ann", access_token |-> tok]
        row2(tok) == [id |-> 2, linkedin_id |-> "u2", email |-> "b@x",
                      name |-> "Bo Li", access_token |-> tok]
        toks == {"t1", "t2", None, ""}
    IN {{}} \cup {{row1(t)} : t \in toks}
            \cup {{row1(t), row2(u)} : t \in toks, u \in toks}

\* the post endpoint alone, over every stored table
InitPost ==
    /\ deployment = "main"
    /\ users \in StoredTables
    /\ cb = [w \in Workers |-> IdleCb]
    /\ issued = <<>>
    /\ usedCodes = {}
    /\ post = IdlePost

NextPost ==
    \/ PostReceive
    \/ GenerateReply
    \/ PublishReply

SpecPost == InitPost /\ [][NextPost]_vars

\* the persisting service as a whole: callbacks and posts against one table
InitStore == Init /\ deployment = "main"

NextStore ==
    \/ \E w \in Workers : Receive(w) \/ TokenReply(w) \/ ProfileReply(w) \/ Commit(w)
    \/ NextPost

SpecStore == InitStore /\ [][NextStore]_vars

(* ---------------------------- outcomes --------------------------------- *)
\* the states of the orchestrator, read off a handler
Exchanging(r) == r.pc \in {"exchanging", "fetching"}
Reconciling(r) == r.pc = "reconciling"
Complete(r) == r.pc = "done" /\ r.response.status \in {200, 307}
Failed(r) == r.pc = "done" /\ r.response.status >= 400

\* the handler has not had its token answer yet and still holds the query
\* parameters of its request
HoldsParams(r) == r.pc \in {"exchanging", "done"} /\ r.tokenResult = None

\* the error kinds of the design, as the responses that carry them
MissingCodeError(resp) ==
    \/ resp.status = 400 /\ resp.detail \in
          {"Authorization code not provided",
           "No authorization code received from LinkedIn"}
    \/ resp.status = 422 /\ resp.detail = "Field required"
OAuthDeniedError(resp) ==
    resp.status = 400 /\ resp.detail \in {"OAuth error", "LinkedIn OAuth error"}
StateMismatchError(resp) ==
    resp.status = 400 /\ resp.detail = "State mismatch"

\* a query parameter that is missing or empty
Absent(s) == s \in {None, ""}

\* the state a callback presents is one that login_linkedin handed out
StateIssued(s) == \E i \in 1..Len(issued) : issued[i] = s

(* ---------------------------- C1 --------------------------------------- *)
\* C1: a callback (with a code and no provider error) whose state parameter
\* is not a state issued by a login - wrong, absent, or no login pending -
\* fails with StateMismatchError, never reaches EXCHANGING and sends no
\* token or profile request.
C1_StateMismatchRejected ==
    \A w \in Workers :
        (/\ HoldsParams(cb[w])
         /\ ~Absent(cb[w].code)
         /\ Absent(cb[w].error)
         /\ ~StateIssued(cb[w].state))
        => /\ ~Exchanging(cb[w])
           /\ Failed(cb[w])
           /\ StateMismatchError(cb[w].response)
           /\ cb[w].tokenReqs = 0
           /\ cb[w].profileReqs = 0

(* ---------------------------- C2 --------------------------------------- *)
\* C2: a callback that carries a provider error, with or without a code,
\* ends FAILED with OAuthDeniedError, sends no token request and does not
\* write the users table.
C2_ProviderErrorDenied ==
    [][\A w \in Workers :
        (/\ cb'[w] # cb[w]
         /\ HoldsParams(cb'[w])
         /\ ~Absent(cb'[w].error))
        => /\ Failed(cb'[w])
           /\ OAuthDeniedError(cb'[w].response)
           /\ cb'[w].tokenReqs = 0
           /\ users' = users]_vars

(* ---------------------------- C3 --------------------------------------- *)
\* C3 (as stated): every callback without a code fails with
\* MissingCodeError, whatever else it carries.
C3_MissingCodeAlways ==
    \A w \in Workers :
        (HoldsParams(cb[w]) /\ Absent(cb[w].code))
        => Failed(cb[w]) /\ MissingCodeError(cb[w].response)

\* C3 (amended): a callback without a code fails before any request goes to
\* the provider and leaves the users table as it was; the failure is
\* MissingCodeError unless a provider error is present as well, which the
\* handlers that read it check first.
C3_MissingCodeFailsEarly ==
    [][\A w \in Workers :
        (/\ cb'[w] # cb[w]
         /\ HoldsParams(cb'[w])
         /\ Absent(cb'[w].code))
        => /\ Failed(cb'[w])
           /\ cb'[w].response.status \in {400, 422}
           /\ (Absent(cb'[w].error) => MissingCodeError(cb'[w].response))
           /\ cb'[w].tokenReqs = 0
           /\ cb'[w].profileReqs = 0
           /\ users' = users
           /\ usedCodes' = usedCodes]_vars

\* a callback with an empty code was refused by the persisting handler
C3_Witness ==
    \E w \in Workers :
        /\ deployment = "main"
        /\ cb[w].pc = "done"
        /\ cb[w].code = ""
        /\ cb[w].tokenResult = None
        /\ MissingCodeError(cb[w].response)

(* ---------------------------- C4 --------------------------------------- *)
\* the rows of a table that carry the external id
RowsFor(tbl, sub) == {u \in tbl : u.linkedin_id = sub}

\* a handler's commit step: it has the token and the profile, and returns
CommitStep(w) == cb[w].pc = "reconciling" /\ cb'[w].pc = "done"

\* C4: every callback whose code was exchanged and whose profile was fetched
\* reaches COMPLETE, and the users table then holds exactly one row with the
\* external id of the profile; no two rows ever share an external id.
C4_CompletesWithOneRecord ==
    [][/\ \A w \in Workers :
            CommitStep(w)
            => /\ Complete(cb'[w])
               /\ Cardinality(RowsFor(users', cb[w].profile.sub)) = 1
       /\ \A u, v \in users' : u.linkedin_id = v.linkedin_id => u = v]_vars

(* ---------------------------- C5 --------------------------------------- *)
\* C5: when a callback completes for an external id that already has a row,
\* and its email, name and token all differ from the stored ones, the row
\* afterwards holds the email, name and token of this callback.
C5_UpsertOverwritesAll ==
    [][\A w \in Workers :
        (/\ CommitStep(w)
         /\ cb[w].db_user # 0
         /\ cb[w].profile.email # None
         /\ LET old == RowById(users, cb[w].db_user)
            IN /\ old.email # cb[w].profile.email
               /\ old.name # cb[w].profile.name
               /\ old.access_token # cb[w].access_token)
        => \E u \in users' :
              /\ u.linkedin_id = cb[w].profile.sub
              /\ u.email = cb[w].profile.email
              /\ u.name = cb[w].profile.name
              /\ u.access_token = cb[w].access_token]_vars

(* ---------------------------- C6 --------------------------------------- *)
\* C6: when two callbacks for one external id overlap (both looked the row
\* up before either committed), each of them completes, and after each
\* commit the table holds exactly one row for the id, with the token of
\* the callback that committed last.  The profiles are taken complete (an
\* email, a name that is not null) and their email free, so that only the
\* overlap is in play.
C6_OverlapIsAtomic ==
    [][\A w \in Workers :
        (/\ CommitStep(w)
         /\ cb[w].overlap
         /\ cb[w].profile.email # None
         /\ cb[w].profile.name # Null
         /\ \A u \in users : u.name # Null
         /\ \A u \in users :
               u.email = cb[w].profile.email
               => u.linkedin_id = cb[w].profile.sub)
        => /\ Complete(cb'[w])
           /\ Cardinality(RowsFor(users', cb[w].profile.sub)) = 1
           /\ \A u \in RowsFor(users', cb[w].profile.sub) :
                 u.access_token = cb[w].access_token]_vars

(* ---------------------------- C7 --------------------------------------- *)
\* C7: a callback whose code the provider has already exchanged never
\* completes: every step it takes leaves the users table and the provider's
\* used codes as the earlier callback left them, it never reaches the
\* write, and it ends in failure.
C7_ReusedCodeFailsStoreKept ==
    [][\A w \in Workers :
        (cb'[w] # cb[w] /\ cb'[w].codeReused)
        => /\ users' = users
           /\ usedCodes' = usedCodes
           /\ cb'[w].pc \in {"fetching", "done"}
           /\ (cb'[w].pc = "done" => Failed(cb'[w]))]_vars

\* a second callback with a used code has failed after the first one stored
\* its user
C7_Witness ==
    \E w \in Workers :
        /\ deployment = "main"
        /\ cb[w].codeReused
        /\ Failed(cb[w])
        /\ users # {}

(* ---------------------------- C8 --------------------------------------- *)
\* C8: after a token answer with an error status or without access_token the
\* callback sends no profile request, never reaches RECONCILING or COMPLETE,
\* and ends in failure.
C8_NoProfileAfterFailedExchange ==
    \A w \in Workers :
        cb[w].tokenResult \in {"http_error", "no_token"}
        => /\ cb[w].profileReqs = 0
           /\ Failed(cb[w])

(* ---------------------------- C9 --------------------------------------- *)
\* C9: after a profile answer with an error status the callback ends FAILED:
\* it reports no success and does not reach the write.
C9_ProfileErrorFails ==
    \A w \in Workers :
        cb[w].profileResult = "http_error" => Failed(cb[w])

(* ---------------------------- C10 -------------------------------------- *)
\* C10: a callback whose profile has no email still completes and leaves a
\* row for the external id of the profile.
C10_MissingEmailTolerated ==
    [][\A w \in Workers :
        (CommitStep(w) /\ cb[w].profile.email = None)
        => /\ Complete(cb'[w])
           /\ RowsFor(users', cb[w].profile.sub) # {}]_vars
(* ------------------------------ createPost ----------------------------- *)
PostDone == post.pc = "done"
PostRowExists == \E u \in users : u.id = post.user_id
UserNotFoundError ==
    post.response.status = 404 /\ post.response.detail = "User not found"
MissingTokenError ==
    /\ post.response.status = 400
    /\ post.response.detail = "User does not have a valid access token"
GenerationError ==
    /\ post.response.status = 500
    /\ post.response.detail = "AI content generation failed"
PublishError ==
    /\ post.response.detail = "Failed to post to LinkedIn"
    /\ post.response.status = PublishStatus(post.pubResult)
    /\ post.response.body = PublishBody(post.pubResult)
PostSuccess == post.response.status = 200 /\ post.response.detail = "success"

\* C11: a createPost for a key with no record ends with UserNotFoundError,
\* one for a record whose access token is NULL or empty ends with
\* MissingTokenError, and in both cases neither the generation nor the
\* publish collaborator has been called.
C11_NoRecordOrNoTokenFailsEarly ==
    /\ post.pc # "idle" /\ ~PostRowExists
         => PostDone /\ UserNotFoundError
                     /\ post.genCalls = 0 /\ post.pubCalls = 0
    /\ post.pc # "idle" /\ PostRowExists
                        /\ Absent(RowById(users, post.user_id).access_token)
         => PostDone /\ MissingTokenError
                     /\ post.genCalls = 0 /\ post.pubCalls = 0

C11_Witness ==
    /\ PostDone /\ MissingTokenError
    /\ PostRowExists /\ RowById(users, post.user_id).access_token = ""

\* C12: when the generation call fails the request is over with
\* GenerationError, the generation call was made exactly once and the
\* publish collaborator was not called; no request makes a second
\* generation call.
C12_GenerationFailureIsFinal ==
    /\ post.genCalls <= 1
    /\ post.genResult = "error"
         => PostDone /\ GenerationError
                     /\ post.genCalls = 1 /\ post.pubCalls = 0

C12_Witness == PostDone /\ post.genResult = "error" /\ GenerationError

\* C13: every failure of the publish call, an error status or no response
\* at all, ends the request with PublishError carrying the provider's
\* status and body, and success is answered only when the provider
\* accepted the post.
C13_PublishFailureIsPublishError ==
    /\ post.pubResult \notin {None, "ok"} => PostDone /\ PublishError
    /\ PostDone /\ PostSuccess => post.pubResult = "ok"

(* ------------------------------ secrets -------------------------------- *)
\* C14: no response of any endpoint, success or error, carries an access
\* token.
C14_NoTokenInResponse ==
    \A w \in Workers : cb[w].response.access_token = None

(* -------------------------------- login -------------------------------- *)
\* C15: the state of every authorization URL returned by a login is present,
\* non-empty, not the fixed literal, and different from the state of every
\* other login.
C15_StateFreshEveryLogin ==
    \A i \in DOMAIN issued :
        /\ ~Absent(issued[i])
        /\ issued[i] # FixedState
        /\ \A j \in DOMAIN issued : j # i => issued[j] # issued[i]

(* ------------------------------ termination ---------------------------- *)
\* C16: a callback that has begun exchanging its code is never left waiting
\* without end: while it is in EXCHANGING its next step (the answer, or the
\* timeout of the request) can happen.
C16_ExchangeCanGoOn ==
    \A w \in Workers :
        Exchanging(cb[w]) => ENABLED (TokenReply(w) \/ ProfileReply(w))

(* ------------------------------ lifecycle ------------------------------ *)
\* C17: no step of a callback or of a createPost removes a row of the users
\* table or changes its id or its linkedin_id; ids and linkedin_ids stay
\* unique; a commit for a linkedin_id that already has a row leaves the
\* number of rows as it was, with one row for that linkedin_id.
C17_RecordsKeepIdentity ==
    [][/\ \A u \in users :
            \E v \in users' : v.id = u.id /\ v.linkedin_id = u.linkedin_id
       /\ \A u, v \in users' :
            (u.id = v.id \/ u.linkedin_id = v.linkedin_id) => u = v
       /\ \A w \in Workers :
            (CommitStep(w) /\ RowsFor(users, cb[w].profile.sub) # {})
            => /\ Cardinality(users') = Cardinality(users)
               /\ Cardinality(RowsFor(users', cb[w].profile.sub)) = 1]_vars

\* two callbacks have completed for the same user, the second one updating
\* the row of the first, and a post was published for that user
C17_Witness ==
    /\ \A w \in Workers :
          cb[w].response.status = 307 /\ cb[w].response.user_id = 1
    /\ Cardinality(users) = 1
    /\ PostDone /\ PostSuccess /\ post.user_id = 1

(* ------------------------------ no retries ----------------------------- *)
\* C18: one invocation of the callback sends at most one token request and
\* at most one profile request, and it has sent a profile request only if
\* its token exchange succeeded.
C18_NoRequestAfterFailure ==
    \A w \in Workers :
        /\ cb[w].tokenReqs <= 1
        /\ cb[w].profileReqs <= 1
        /\ cb[w].profileReqs > 0 => cb[w].tokenResult = "ok"

(* ------------------------------ creation ------------------------------- *)
\* C19: a commit for an external id that has no row creates the row for it,
\* whatever other rows the table holds.  The profile is taken complete (an
\* email, a name that is not null) and the lookup of the handler current.
C19_CreationKeyedByExternalId ==
    [][\A w \in Workers :
        (/\ CommitStep(w)
         /\ RowsFor(users, cb[w].profile.sub) = {}
         /\ cb[w].profile.email # None
         /\ cb[w].profile.name # Null)
        => /\ Complete(cb'[w])
           /\ Cardinality(RowsFor(users', cb[w].profile.sub)) = 1]_vars

(* ------------------------------ frame ---------------------------------- *)
\* C20: the users table changes only in the commit step of a callback whose
\* token request and profile request were both answered with success, and
\* a step in which a callback ends in failure leaves the table as it was.
C20_WriteOnlyOnSuccess ==
    [][/\ users' # users
          => \E w \in Workers :
                /\ CommitStep(w)
                /\ cb[w].tokenResult = "ok"
                /\ cb[w].profileResult = "ok"
       /\ \A w \in Workers :
            (cb'[w] # cb[w] /\ Failed(cb'[w])) => users' = users]_vars

(* ------------------------------ error reports -------------------------- *)
\* C21: in the handlers without a store, a token answer with an error
\* status or without access_token, and a profile answer with an error
\* status, end the callback with status 400 and the detail raised at that
\* step, not with the 500 "Internal server error" of the last except clause.
C21_StepErrorKeeps400 ==
    \A w \in Workers :
        (/\ deployment \in {"app", "app_main"}
         /\ \/ cb[w].tokenResult \in {"http_error", "no_token"}
            \/ cb[w].profileResult = "http_error")
        => /\ cb[w].pc = "done"
           /\ cb[w].response.status = 400
           /\ cb[w].response.detail # "Internal server error"

====
